---- MODULE Spec2Model ----
(***************************************************************************)
(* A model of mineraker: Position, Tile, Board (generation, cascade open,  *)
(* flagging) and the Area / MineCount algebra.                             *)
(*                                                                         *)
(* usize is modelled as an unsigned integer of UsizeBits bits.  The real   *)
(* width (64) does not fit the model checker's integers; every count of    *)
(* the model stays far below the modulus, so a wrapped value is, as in the *)
(* program, larger than every width, height and set size.                  *)
(***************************************************************************)
EXTENDS Integers, Sequences, FiniteSets, TLC

\* ------------------------------------------------------------------ bounds
UsizeBits == 16
\* Area algebra: the positions areas are drawn from (a prefix of AreaUniverseSeq).
MaxAreaPositions == 5
\* Boards: width and height up to MaxDim, at most MaxTiles tiles; a played board
\* holds at most MaxMines mines.
MaxDim == 5
MaxTiles == 6
MaxMines == 1
\* Board::new: boards of at most MaxNewTiles tiles, and at most MaxDrawn indices
\* are drawn (or the assert fails).
MaxNewTiles == 8
MaxDrawn == 3
\* A Tile on its own: at most MaxTileCalls calls of its methods in a row.
MaxTileCalls == 4
\* Position::neighbors: coordinates 0..MaxCoord and the two largest of usize,
\* widths and heights 0..MaxCoord+1, 8 and usize::MAX.
MaxCoord == 2
\* Areas about a mine assignment: over MaxSoundPositions positions, with
\* bounds up to one more than that.
MaxSoundPositions == 3

\* ------------------------------------------------------------------- usize
UsizeModulus == 2 ^ UsizeBits
UsizeMax == UsizeModulus - 1

\* usize::wrapping_sub
WrappingSub(a, b) == (a - b + UsizeModulus) % UsizeModulus

\* usize::saturating_sub
SaturatingSub(a, b) == IF a >= b THEN a - b ELSE 0

\* The `-` of usize: a - b when it does not underflow; otherwise the build
\* decides: with overflow checks the program panics, without it wraps.
SubUnderflows(a, b) == a < b

\* The `+` of usize, in the same way: the sum as a build without overflow
\* checks computes it, and whether it overflows (a panic with the checks).
WrappingAdd(a, b) == (a + b) % UsizeModulus

AddOverflows(a, b) == a + b > UsizeMax

Min(a, b) == IF a <= b THEN a ELSE b

Max(a, b) == IF a >= b THEN a ELSE b

\* ---------------------------------------------------------------- Position
Pos(x, y) == [x |-> x, y |-> y]

\* Position::to_index
ToIndex(pos, width) == pos.y * width + pos.x

\* Position::from_index (width > 0)
FromIndex(index, width) == Pos(index % width, index \div width)

\* Mutant: saturating_sub in place of wrapping_sub, so that at x = 0 or y = 0
\* the candidates to the left or above fall on the board instead of beyond it.
NeighborCandidatesSaturating(pos) ==
    LET x == pos.x
        y == pos.y
    IN << Pos(SaturatingSub(x, 1), SaturatingSub(y, 1)),
          Pos(x, SaturatingSub(y, 1)),
          Pos(WrappingAdd(x, 1), SaturatingSub(y, 1)),
          Pos(SaturatingSub(x, 1), y),
          Pos(WrappingAdd(x, 1), y),
          Pos(SaturatingSub(x, 1), WrappingAdd(y, 1)),
          Pos(x, WrappingAdd(y, 1)),
          Pos(WrappingAdd(x, 1), WrappingAdd(y, 1)) >>

\* The eight candidates of Position::neighbors, in the order of the array,
\* with x + 1 and y + 1 as a build without overflow checks computes them.
NeighborCandidates(pos) ==
    LET x == pos.x
        y == pos.y
    IN << Pos(WrappingSub(x, 1), WrappingSub(y, 1)),
          Pos(x, WrappingSub(y, 1)),
          Pos(WrappingAdd(x, 1), WrappingSub(y, 1)),
          Pos(WrappingSub(x, 1), y),
          Pos(WrappingAdd(x, 1), y),
          Pos(WrappingSub(x, 1), WrappingAdd(y, 1)),
          Pos(x, WrappingAdd(y, 1)),
          Pos(WrappingAdd(x, 1), WrappingAdd(y, 1)) >>

\* Position::neighbors: the candidates inside width x height, order kept.
Neighbors(pos, width, height) ==
    SelectSeq(NeighborCandidates(pos), LAMBDA p : p.x < width /\ p.y < height)

\* The array of candidates is built whole before it is filtered: x + 1 or
\* y + 1 overflows when the coordinate is usize::MAX.
NeighborsOverflows(pos) == AddOverflows(pos.x, 1) \/ AddOverflows(pos.y, 1)

SeqToSet(s) == { s[i] : i \in DOMAIN s }

\* -------------------------------------------------------------------- Tile
\* Value::Near(n), Value::Mine
Near(n) == [tag |-> "Near", count |-> n]

Mine == [tag |-> "Mine", count |-> 0]

\* Tile::new
TileNew(value, state) == [value |-> value, state |-> state]

\* Tile::default: Value::default() is Near(0), State::default() is Closed.
TileDefault == TileNew(Near(0), "Closed")

\* Tile::with_value
TileWithValue(value) == TileNew(value, "Closed")

\* Mutant: increment_value without its test for a mine.
IncrementValueUnguarded(tile) == [tile EXCEPT !.value = Near(tile.value.count + 1)]

\* Tile::increment_value
IncrementValue(tile) ==
    IF tile.value.tag = "Near"
    THEN [tile EXCEPT !.value = Near(tile.value.count + 1)]
    ELSE tile

\* Mutant: open that also opens a flagged tile.
TileOpenFromFlag(tile) ==
    IF tile.state # "Open" THEN [tile EXCEPT !.state = "Open"] ELSE tile

\* Tile::open
TileOpen(tile) ==
    IF tile.state = "Closed" THEN [tile EXCEPT !.state = "Open"] ELSE tile

\* Tile::flag
TileFlag(tile) ==
    IF tile.state = "Closed" THEN [tile EXCEPT !.state = "Flag"] ELSE tile

\* Tile::toggle_flag
ToggleFlag(tile) ==
    [tile EXCEPT !.state = CASE tile.state = "Closed" -> "Flag"
                             [] tile.state = "Open"   -> "Open"
                             [] tile.state = "Flag"   -> "Closed"]

\* ------------------------------------------------------------------- Board
\* A Board is its tiles, a function on 0..len-1 (the Vec), and its width.
TilesLen(tiles) == Cardinality(DOMAIN tiles)

\* vec![Tile::default(); size]
DefaultTiles(size) == [i \in 0..(size - 1) |-> TileDefault]

\* Board::height: tiles.len().checked_div(width).unwrap_or_default()
Height(tiles, width) == IF width = 0 THEN 0 ELSE TilesLen(tiles) \div width

\* Board::get_tile / Board::get_tile_mut return Some exactly when the
\* row-major index of pos is inside the Vec.
HasTile(tiles, width, pos) == ToIndex(pos, width) < TilesLen(tiles)

\* The body of the for_each of Board::new for one drawn index: the tile becomes
\* a mine and every neighbor's value is incremented, in the iterator's order.
RECURSIVE IncrementAll(_, _, _)
IncrementAll(tiles, width, positions) ==
    IF positions = << >> THEN tiles
    ELSE IncrementAll(
            [tiles EXCEPT ![ToIndex(Head(positions), width)] = IncrementValue(@)],
            width, Tail(positions))

PlaceMine(tiles, width, height, idx) ==
    IncrementAll([tiles EXCEPT ![idx] = TileWithValue(Mine)], width,
                 Neighbors(FromIndex(idx, width), width, height))

\* Board::new after its assert: the loop over mine_idxs, in draw order.
RECURSIVE PlaceMines(_, _, _, _)
PlaceMines(tiles, width, height, mine_idxs) ==
    IF mine_idxs = << >> THEN tiles
    ELSE PlaceMines(PlaceMine(tiles, width, height, Head(mine_idxs)),
                    width, height, Tail(mine_idxs))

\* Mutant: the flood fill without its test for State::Closed.
RECURSIVE EmptyAreaLoopAnyState(_, _, _, _, _)
EmptyAreaLoopAnyState(tiles, width, stack, emptys, processed) ==
    IF stack = << >> THEN emptys
    ELSE LET p == stack[Len(stack)]
             rest == SubSeq(stack, 1, Len(stack) - 1)
             processed1 == processed \cup { ToIndex(p, width) }
             pushed == SelectSeq(Neighbors(p, width, Height(tiles, width)),
                         LAMBDA q :
                            /\ ToIndex(q, width) \notin processed1
                            /\ tiles[ToIndex(q, width)].value = Near(0))
         IN  EmptyAreaLoopAnyState(tiles, width, rest \o pushed, Append(emptys, p),
                                   processed1)

\* Board::empty_area: the loop, with the Vec `stack` popped at its end.
RECURSIVE EmptyAreaLoop(_, _, _, _, _)
EmptyAreaLoop(tiles, width, stack, emptys, processed) ==
    IF stack = << >> THEN emptys
    ELSE LET p == stack[Len(stack)]
             rest == SubSeq(stack, 1, Len(stack) - 1)
             processed1 == processed \cup { ToIndex(p, width) }
             pushed == SelectSeq(Neighbors(p, width, Height(tiles, width)),
                         LAMBDA q :
                            /\ ToIndex(q, width) \notin processed1
                            /\ tiles[ToIndex(q, width)].value = Near(0)
                            /\ tiles[ToIndex(q, width)].state = "Closed")
         IN  EmptyAreaLoop(tiles, width, rest \o pushed, Append(emptys, p), processed1)

EmptyArea(tiles, width, pos) == EmptyAreaLoop(tiles, width, << pos >>, << >>, {})

\* tiles[..].open() for each position of a sequence, in order.
RECURSIVE OpenEach(_, _, _)
OpenEach(tiles, width, positions) ==
    IF positions = << >> THEN tiles
    ELSE OpenEach([tiles EXCEPT ![ToIndex(Head(positions), width)] = TileOpen(@)],
                  width, Tail(positions))

\* The for loop of Board::open_from over empty_area(pos).
RECURSIVE OpenEmptys(_, _, _)
OpenEmptys(tiles, width, emptys) ==
    IF emptys = << >> THEN tiles
    ELSE LET p == Head(emptys)
             opened == [tiles EXCEPT ![ToIndex(p, width)] = TileOpen(@)]
         IN  OpenEmptys(OpenEach(opened, width, Neighbors(p, width, Height(tiles, width))),
                        width, Tail(emptys))

\* Board::open_from
OpenFrom(tiles, width, pos) ==
    IF ~HasTile(tiles, width, pos) THEN tiles
    ELSE LET i == ToIndex(pos, width)
             opened == [tiles EXCEPT ![i] = TileOpen(@)]
         IN  IF opened[i].value = Near(0)
             THEN OpenEmptys(opened, width, EmptyArea(opened, width, pos))
             ELSE opened

\* The list empty_area returns inside open_from(pos): the positions its loop
\* popped, in order; empty when open_from does not call empty_area.
OpenFromEmptys(tiles, width, pos) ==
    IF ~HasTile(tiles, width, pos) THEN << >>
    ELSE LET i == ToIndex(pos, width)
             opened == [tiles EXCEPT ![i] = TileOpen(@)]
         IN  IF opened[i].value = Near(0)
             THEN EmptyArea(opened, width, pos)
             ELSE << >>

\* Board::flag_from
FlagFrom(tiles, width, pos) ==
    IF ~HasTile(tiles, width, pos) THEN tiles
    ELSE [tiles EXCEPT ![ToIndex(pos, width)] = ToggleFlag(@)]

\* ---------------------------------------------------------- MineCount, Area
\* MineCount::from_range
MineCountFromRange(min, max) == [min |-> min, max |-> max]

\* Area::new
AreaNew(positions, mine_count) == [positions |-> positions, mine_count |-> mine_count]

\* Mutant: difference that takes all of other.mine_count.min to lie in the
\* intersection (no other_diff_size subtracted).
DifferenceOtherMinShared(self, other, overflow_checks) ==
    LET diff == self.positions \ other.positions
        intersection_size == Cardinality(self.positions \cap other.positions)
        intersection_mines ==
            Min(Min(intersection_size, self.mine_count.min), other.mine_count.max)
        min_underflows == SubUnderflows(self.mine_count.min, intersection_mines)
        min == WrappingSub(self.mine_count.min, intersection_mines)
        other_mines_overflow_to_intersection ==
            Min(intersection_size, other.mine_count.min)
        max_underflows ==
            SubUnderflows(self.mine_count.max, other_mines_overflow_to_intersection)
        max == Min(Cardinality(diff),
                   WrappingSub(self.mine_count.max, other_mines_overflow_to_intersection))
        underflow == min_underflows \/ max_underflows
    IN  [ underflow |-> underflow,
          panicked  |-> underflow /\ overflow_checks,
          area      |-> AreaNew(diff, MineCountFromRange(min, max)) ]

\* Mutant: difference whose intersection_mines leaves out other.mine_count.max.
DifferenceIgnoringOtherMax(self, other, overflow_checks) ==
    LET diff == self.positions \ other.positions
        intersection_size == Cardinality(self.positions \cap other.positions)
        intersection_mines == Min(intersection_size, self.mine_count.min)
        min == WrappingSub(self.mine_count.min, intersection_mines)
        other_diff_size == WrappingSub(Cardinality(other.positions), intersection_size)
        other_mines_overflow_to_intersection ==
            SaturatingSub(other.mine_count.min, other_diff_size)
        max_underflows ==
            SubUnderflows(self.mine_count.max, other_mines_overflow_to_intersection)
        max == Min(Cardinality(diff),
                   WrappingSub(self.mine_count.max, other_mines_overflow_to_intersection))
    IN  [ underflow |-> max_underflows,
          panicked  |-> max_underflows /\ overflow_checks,
          area      |-> AreaNew(diff, MineCountFromRange(min, max)) ]

\* Area::difference.  The result carries `underflow` (a usize subtraction went
\* below zero) and `panicked` (the build checks overflow, so no Area is
\* returned); without the check the subtraction wraps.
Difference(self, other, overflow_checks) ==
    LET diff == self.positions \ other.positions
        intersection_size == Cardinality(self.positions \cap other.positions)
        intersection_mines ==
            Min(Min(intersection_size, self.mine_count.min), other.mine_count.max)
        min_underflows == SubUnderflows(self.mine_count.min, intersection_mines)
        min == WrappingSub(self.mine_count.min, intersection_mines)
        size_underflows == SubUnderflows(Cardinality(other.positions), intersection_size)
        other_diff_size == WrappingSub(Cardinality(other.positions), intersection_size)
        other_mines_overflow_to_intersection ==
            SaturatingSub(other.mine_count.min, other_diff_size)
        max_underflows ==
            SubUnderflows(self.mine_count.max, other_mines_overflow_to_intersection)
        max == Min(Cardinality(diff),
                   WrappingSub(self.mine_count.max, other_mines_overflow_to_intersection))
        underflow == min_underflows \/ size_underflows \/ max_underflows
    IN  [ underflow |-> underflow,
          panicked  |-> underflow /\ overflow_checks,
          area      |-> AreaNew(diff, MineCountFromRange(min, max)) ]

\* Area::intersection (board.rs), with the same result record as Difference.
Intersection(self, other, overflow_checks) ==
    LET intersection == self.positions \cap other.positions
        len == Cardinality(intersection)
        self_underflows == SubUnderflows(Cardinality(self.positions), len)
        self_diff == WrappingSub(Cardinality(self.positions), len)
        other_underflows == SubUnderflows(Cardinality(other.positions), len)
        other_diff == WrappingSub(Cardinality(other.positions), len)
        leaks_from_self == SaturatingSub(self.mine_count.min, self_diff)
        leaks_from_other == SaturatingSub(other.mine_count.min, other_diff)
        intersection_least_contains == Max(leaks_from_self, leaks_from_other)
        min_intersection_mines == Min(len, intersection_least_contains)
        fills_from_self == self.mine_count.max
        fills_from_other == other.mine_count.max
        max_intersection_mines == Min(Min(len, fills_from_self), fills_from_other)
        underflow == self_underflows \/ other_underflows
    IN  [ underflow |-> underflow,
          panicked  |-> underflow /\ overflow_checks,
          area      |-> AreaNew(intersection,
                          MineCountFromRange(min_intersection_mines,
                                             max_intersection_mines)) ]

\* MineCount::exact_count: Some(min) when min == max, None otherwise.
ExactCount(mine_count) ==
    IF mine_count.min = mine_count.max
    THEN [some |-> TRUE, count |-> mine_count.min]
    ELSE [some |-> FALSE, count |-> 0]

\* Mutant: next_action that tests for a full area before it tests for zero.
NextActionFlagFirst(self) ==
    LET exact == ExactCount(self.mine_count)
    IN  IF ~exact.some THEN "None"
        ELSE IF exact.count = Cardinality(self.positions) THEN "Flag"
        ELSE IF exact.count = 0 THEN "Open"
        ELSE "None"

\* Area::next_action: Some(AreaAction::Open), Some(AreaAction::Flag) or None.
NextAction(self) ==
    LET exact == ExactCount(self.mine_count)
    IN  IF ~exact.some THEN "None"
        ELSE IF exact.count = 0 THEN "Open"
        ELSE IF exact.count = Cardinality(self.positions) THEN "Flag"
        ELSE "None"

\* Board::neighbors_tile_and_pos: the neighbors of pos; each has a tile.
NeighborsTileAndPos(tiles, width, pos) == Neighbors(pos, width, Height(tiles, width))

\* Board::tile_neighbors_area, with the same result record as Difference:
\* `val as usize - flags_around` is a usize subtraction.
TileNeighborsArea(tiles, width, pos, overflow_checks) ==
    LET around == NeighborsTileAndPos(tiles, width, pos)
        flags_around ==
            Cardinality({ k \in DOMAIN around :
                            tiles[ToIndex(around[k], width)].state = "Flag" })
        positions ==
            { around[k] : k \in { j \in DOMAIN around :
                            tiles[ToIndex(around[j], width)].state = "Closed" } }
        near == HasTile(tiles, width, pos)
                  /\ tiles[ToIndex(pos, width)].value.tag = "Near"
        val == IF near THEN tiles[ToIndex(pos, width)].value.count ELSE 0
        underflow == near /\ SubUnderflows(val, flags_around)
        mine_count ==
            IF near
            THEN MineCountFromRange(WrappingSub(val, flags_around),
                                    WrappingSub(val, flags_around))
            ELSE MineCountFromRange(0, 8)
    IN  [ underflow |-> underflow,
          panicked  |-> underflow /\ overflow_checks,
          area      |-> AreaNew(positions, mine_count) ]

\* ------------------------------------------------------------------- state
VARIABLES
    overflow_checks,   \* the build: TRUE when usize arithmetic panics on overflow
    area1, area2,      \* the two Areas an operation of the algebra is applied to
    mines,             \* the mined positions the two Areas are statements about
    area_op,           \* the operation of the algebra applied last ("none" at first)
    area_out,          \* the Area it returned
    action_out,        \* what next_action returned
    config,            \* the GenerationConfig of the Board::new calls (start_pos apart)
    mine_idxs,         \* what rand::seq::index::sample draws for config.seed
    calls,             \* the Board::new calls in progress: start_pos, position, board
    tiles, width,      \* the Board being played
    last_call,         \* the method called last on it, and its argument
    before,            \* the tiles before that call
    emptys,            \* what empty_area returned to that call (open_from)
    neighbors_area,    \* what that call returned (tile_neighbors_area)
    tile,              \* a Tile on its own
    tile_calls,        \* the methods called on it so far, each with the tile before
    position,          \* the Position neighbors is called on
    grid,              \* the width and height it is called with
    neighbors_out      \* what the call yielded

areaVars == << overflow_checks, area1, area2, mines, area_op, area_out, action_out >>

genVars == << config, mine_idxs, calls >>

boardVars == << tiles, width, last_call, before, emptys, neighbors_area >>

tileVars == << tile, tile_calls >>

posVars == << position, grid, neighbors_out >>

vars == << overflow_checks, area1, area2, mines, area_op, area_out, action_out,
           config, mine_idxs, calls,
           tiles, width, last_call, before, emptys, neighbors_area,
           tile, tile_calls, position, grid, neighbors_out >>

\* Each specification below runs one part of the program; the variables of the
\* other parts keep these values.
NoResult == [ underflow |-> FALSE, panicked |-> FALSE,
              area |-> AreaNew({}, MineCountFromRange(0, 0)) ]

AreaIdle ==
    /\ overflow_checks = FALSE
    /\ area1 = AreaNew({}, MineCountFromRange(0, 0))
    /\ area2 = AreaNew({}, MineCountFromRange(0, 0))
    /\ mines = {}
    /\ area_op = "none"
    /\ area_out = NoResult
    /\ action_out = "None"

GenIdle ==
    /\ config = [width |-> 0, height |-> 0, mine_count |-> 0]
    /\ mine_idxs = << >>
    /\ calls = << >>

NoCall == [kind |-> "none", pos |-> Pos(0, 0)]

BoardIdle ==
    /\ tiles = << >>
    /\ width = 0
    /\ last_call = NoCall
    /\ before = << >>
    /\ emptys = << >>
    /\ neighbors_area = NoResult

TileIdle ==
    /\ tile = TileDefault
    /\ tile_calls = << >>

NoNeighbors ==
    [ called |-> FALSE, overflow |-> FALSE, panicked |-> FALSE, positions |-> << >> ]

PosIdle ==
    /\ position = Pos(0, 0)
    /\ grid = [width |-> 0, height |-> 0]
    /\ neighbors_out = NoNeighbors

\* ------------------------------------------------------ the Area algebra
AreaUniverseSeq ==
    << Pos(0, 1), Pos(0, 0), Pos(1, 0), Pos(2, 0), Pos(3, 0), Pos(1, 1), Pos(2, 1) >>

AreaUniverse == { AreaUniverseSeq[i] : i \in 1..MaxAreaPositions }

\* An Area as the spec's data model has it: min <= max <= number of positions.
WellFormed(a) ==
    /\ a.mine_count.min <= a.mine_count.max
    /\ a.mine_count.max <= Cardinality(a.positions)

AreaCandidates ==
    { AreaNew(ps, MineCountFromRange(lo, hi)) :
        ps \in SUBSET AreaUniverse, lo \in 0..MaxAreaPositions, hi \in 0..MaxAreaPositions }

WellFormedAreas == { a \in AreaCandidates : WellFormed(a) }

AreaInit ==
    /\ overflow_checks \in BOOLEAN
    /\ area1 \in WellFormedAreas
    /\ area2 \in WellFormedAreas
    /\ mines = {}
    /\ area_op = "none"
    /\ area_out = NoResult
    /\ action_out = "None"
    /\ GenIdle
    /\ BoardIdle
    /\ TileIdle
    /\ PosIdle

\* area1.difference(&area2)
CallDifference ==
    /\ area_op = "none"
    /\ area_op' = "difference"
    /\ area_out' = Difference(area1, area2, overflow_checks)
    /\ UNCHANGED << overflow_checks, area1, area2, mines, action_out >>
    /\ UNCHANGED << genVars, boardVars, tileVars, posVars >>

\* area1.intersection(&area2)
CallIntersection ==
    /\ area_op = "none"
    /\ area_op' = "intersection"
    /\ area_out' = Intersection(area1, area2, overflow_checks)
    /\ UNCHANGED << overflow_checks, area1, area2, mines, action_out >>
    /\ UNCHANGED << genVars, boardVars, tileVars, posVars >>

AreaNext == CallDifference \/ CallIntersection

SpecArea == AreaInit /\ [][AreaNext]_vars

\* Areas that are statements about one mine assignment: `mines` is the set of
\* mined positions, and each Area's range holds the number of mines among its
\* positions.  The upper bound may exceed the number of positions.
SoundUniverse == { AreaUniverseSeq[i] : i \in 1..MaxSoundPositions }

HoldsFor(a, M) ==
    /\ a.mine_count.min <= Cardinality(M \cap a.positions)
    /\ Cardinality(M \cap a.positions) <= a.mine_count.max

SoundCandidates ==
    { AreaNew(ps, MineCountFromRange(lo, hi)) :
        ps \in SUBSET SoundUniverse,
        lo \in 0..(MaxSoundPositions + 1), hi \in 0..(MaxSoundPositions + 1) }

SoundInit ==
    /\ overflow_checks \in BOOLEAN
    /\ mines \in SUBSET SoundUniverse
    /\ area1 \in { a \in SoundCandidates : HoldsFor(a, mines) }
    /\ area2 \in { a \in SoundCandidates : HoldsFor(a, mines) }
    /\ area_op = "none"
    /\ area_out = NoResult
    /\ action_out = "None"
    /\ GenIdle
    /\ BoardIdle
    /\ TileIdle
    /\ PosIdle

SpecSound == SoundInit /\ [][AreaNext]_vars

\* Area::next_action is defined on every Area, well-formed or not.
ActionInit ==
    /\ overflow_checks = FALSE
    /\ area1 \in AreaCandidates
    /\ area2 = AreaNew({}, MineCountFromRange(0, 0))
    /\ mines = {}
    /\ area_op = "none"
    /\ area_out = NoResult
    /\ action_out = "None"
    /\ GenIdle
    /\ BoardIdle
    /\ TileIdle
    /\ PosIdle

\* area1.next_action()
CallNextAction ==
    /\ area_op = "none"
    /\ area_op' = "next_action"
    /\ action_out' = NextAction(area1)
    /\ UNCHANGED << overflow_checks, area1, area2, mines, area_out >>
    /\ UNCHANGED << genVars, boardVars, tileVars, posVars >>

ActionNext == CallNextAction

SpecAction == ActionInit /\ [][ActionNext]_vars

\* ------------------------------------------------------------- Board::new
\* The sequences of n distinct elements of S: what index::sample can draw.
RECURSIVE DistinctSeqs(_, _)
DistinctSeqs(S, n) ==
    IF n = 0 THEN { << >> }
    ELSE UNION { { Append(q, e) : e \in S \ SeqToSet(q) } : q \in DistinctSeqs(S, n - 1) }

StartPositions == { Pos(0, 0), Pos(1, 0) }

NewCall(start_pos) ==
    [ start_pos |-> start_pos, phase |-> "called",
      tiles |-> << >>, width |-> 0, pending |-> << >> ]

GenInit ==
    /\ \E w \in 0..MaxDim, h \in 0..MaxDim :
         /\ w * h <= MaxNewTiles
         /\ \E m \in (0..Min(MaxDrawn, w * h - 1)) \cup { w * h, w * h + 1 } :
              /\ config = [width |-> w, height |-> h, mine_count |-> m]
              /\ mine_idxs \in IF m < w * h
                               THEN DistinctSeqs(0..(w * h - 1), m)
                               ELSE { << >> }
    /\ \E p2 \in StartPositions : calls = << NewCall(Pos(0, 0)), NewCall(p2) >>
    /\ AreaIdle
    /\ BoardIdle
    /\ TileIdle
    /\ PosIdle

\* Mutant: the assert of an earlier Board::new, mines <= width * height.
ConfigAcceptedLenient(cfg) == cfg.mine_count <= cfg.width * cfg.height

\* assert!(config.mine_count < size)
ConfigAccepted(cfg) == cfg.mine_count < cfg.width * cfg.height

\* Board::new up to the loop: the assert, the draw, the empty board.  When the
\* assert fails the call panics and no Board exists.
NewBegin(c) ==
    /\ calls[c].phase = "called"
    /\ LET size == config.width * config.height
       IN  IF ~ConfigAccepted(config)
           THEN calls' = [calls EXCEPT ![c].phase = "panicked"]
           ELSE calls' = [calls EXCEPT ![c].phase = "placing",
                                       ![c].tiles = DefaultTiles(size),
                                       ![c].width = config.width,
                                       ![c].pending = mine_idxs]
    /\ UNCHANGED << config, mine_idxs, areaVars, boardVars, tileVars, posVars >>

\* Mutant: generation that uses start_pos, leaving the start tile free of a mine.
NewPlaceMineAvoidStart(c) ==
    /\ calls[c].phase = "placing"
    /\ calls[c].pending # << >>
    /\ calls' = [calls EXCEPT
                   ![c].tiles =
                       IF Head(calls[c].pending) = ToIndex(calls[c].start_pos, config.width)
                       THEN calls[c].tiles
                       ELSE PlaceMine(calls[c].tiles, config.width, config.height,
                                      Head(calls[c].pending)),
                   ![c].pending = Tail(calls[c].pending)]
    /\ UNCHANGED << config, mine_idxs, areaVars, boardVars, tileVars, posVars >>

\* One turn of the loop over mine_idxs.
NewPlaceMine(c) ==
    /\ calls[c].phase = "placing"
    /\ calls[c].pending # << >>
    /\ calls' = [calls EXCEPT
                   ![c].tiles = PlaceMine(calls[c].tiles, config.width, config.height,
                                          Head(calls[c].pending)),
                   ![c].pending = Tail(calls[c].pending)]
    /\ UNCHANGED << config, mine_idxs, areaVars, boardVars, tileVars, posVars >>

\* The loop is over: the board is returned.
NewReturn(c) ==
    /\ calls[c].phase = "placing"
    /\ calls[c].pending = << >>
    /\ calls' = [calls EXCEPT ![c].phase = "done"]
    /\ UNCHANGED << config, mine_idxs, areaVars, boardVars, tileVars, posVars >>

GenNext == \E c \in 1..2 : NewBegin(c) \/ NewPlaceMine(c) \/ NewReturn(c)

SpecGen == GenInit /\ [][GenNext]_vars


\* --------------------------------------------------------- playing a Board
\* Board::new as one step: what the three actions above compute.
BoardNew(w, h, idxs) == PlaceMines(DefaultTiles(w * h), w, h, idxs)

\* The positions a caller passes: the board's, and one column and one row beyond.
CallPositions(w, h) == { Pos(x, y) : x \in 0..w, y \in 0..h }

Init ==
    /\ \E w \in 1..MaxDim, h \in 1..MaxDim :
         /\ w * h <= MaxTiles
         /\ \E m \in 0..MaxMines :
              /\ m < w * h
              /\ \E idxs \in DistinctSeqs(0..(w * h - 1), m) :
                   /\ tiles = BoardNew(w, h, idxs)
                   /\ width = w
    /\ last_call = NoCall
    /\ before = tiles
    /\ emptys = << >>
    /\ neighbors_area = NoResult
    /\ AreaIdle
    /\ GenIdle
    /\ TileIdle
    /\ PosIdle

\* A call of a method runs whole; last_call, before and what the call returned
\* record it until the caller has looked at the board (Returned), and then the
\* next call is made.
CallOpenFrom(pos) ==
    /\ last_call = NoCall
    /\ tiles' = OpenFrom(tiles, width, pos)
    /\ emptys' = OpenFromEmptys(tiles, width, pos)
    /\ last_call' = [kind |-> "open_from", pos |-> pos]
    /\ before' = tiles
    /\ UNCHANGED << width, neighbors_area, areaVars, genVars, tileVars, posVars >>

CallFlagFrom(pos) ==
    /\ last_call = NoCall
    /\ tiles' = FlagFrom(tiles, width, pos)
    /\ last_call' = [kind |-> "flag_from", pos |-> pos]
    /\ before' = tiles
    /\ UNCHANGED << width, emptys, neighbors_area, areaVars, genVars, tileVars, posVars >>

\* tile_neighbors_area(pos) reads the board and returns an Area.
CallTileNeighborsArea(pos) ==
    /\ last_call = NoCall
    /\ neighbors_area' = TileNeighborsArea(tiles, width, pos, overflow_checks)
    /\ last_call' = [kind |-> "tile_neighbors_area", pos |-> pos]
    /\ before' = tiles
    /\ UNCHANGED << tiles, width, emptys, areaVars, genVars, tileVars, posVars >>

Returned ==
    /\ last_call # NoCall
    /\ last_call' = NoCall
    /\ before' = tiles
    /\ emptys' = << >>
    /\ neighbors_area' = NoResult
    /\ UNCHANGED << tiles, width, areaVars, genVars, tileVars, posVars >>

Next ==
    \/ \E pos \in CallPositions(width, Height(tiles, width)) : CallOpenFrom(pos)
    \/ \E pos \in CallPositions(width, Height(tiles, width)) : CallFlagFrom(pos)
    \/ \E pos \in CallPositions(width, Height(tiles, width)) : CallTileNeighborsArea(pos)
    \/ Returned

Spec == Init /\ [][Next]_vars

\* ------------------------------------------------------- a Tile on its own
\* The values and states a Tile is constructed with (Tile::new).
TileValues == { Near(0), Near(1), Mine }

TileStates == { "Closed", "Open", "Flag" }

TileInit ==
    /\ tile \in { TileNew(value, state) : value \in TileValues, state \in TileStates }
    /\ tile_calls = << >>
    /\ AreaIdle
    /\ GenIdle
    /\ BoardIdle
    /\ PosIdle

\* tile.open()
TileCallOpen ==
    /\ Len(tile_calls) < MaxTileCalls
    /\ tile' = TileOpen(tile)
    /\ tile_calls' = Append(tile_calls, [op |-> "open", tile |-> tile])
    /\ UNCHANGED << areaVars, genVars, boardVars, posVars >>

\* tile.flag()
TileCallFlag ==
    /\ Len(tile_calls) < MaxTileCalls
    /\ tile' = TileFlag(tile)
    /\ tile_calls' = Append(tile_calls, [op |-> "flag", tile |-> tile])
    /\ UNCHANGED << areaVars, genVars, boardVars, posVars >>

\* tile.toggle_flag()
TileCallToggleFlag ==
    /\ Len(tile_calls) < MaxTileCalls
    /\ tile' = ToggleFlag(tile)
    /\ tile_calls' = Append(tile_calls, [op |-> "toggle_flag", tile |-> tile])
    /\ UNCHANGED << areaVars, genVars, boardVars, posVars >>

TileNext == TileCallOpen \/ TileCallFlag \/ TileCallToggleFlag

SpecTile == TileInit /\ [][TileNext]_vars

\* ---------------------------------------------------- Position::neighbors
Coordinates == (0..MaxCoord) \cup { UsizeMax - 1, UsizeMax }

GridSizes == (0..(MaxCoord + 1)) \cup { 8, UsizeMax }

NeighborsInit ==
    /\ overflow_checks \in BOOLEAN
    /\ position \in { Pos(x, y) : x \in Coordinates, y \in Coordinates }
    /\ grid \in [ width : GridSizes, height : GridSizes ]
    /\ neighbors_out = NoNeighbors
    /\ area1 = AreaNew({}, MineCountFromRange(0, 0))
    /\ area2 = AreaNew({}, MineCountFromRange(0, 0))
    /\ mines = {}
    /\ area_op = "none"
    /\ area_out = NoResult
    /\ action_out = "None"
    /\ GenIdle
    /\ BoardIdle
    /\ TileIdle

\* position.neighbors(width, height).collect(): with overflow checks the call
\* panics when x + 1 or y + 1 overflows, and nothing is yielded.
CallNeighbors ==
    /\ ~neighbors_out.called
    /\ LET overflow == NeighborsOverflows(position)
           panicked == overflow /\ overflow_checks
       IN  neighbors_out' =
             [ called    |-> TRUE,
               overflow  |-> overflow,
               panicked  |-> panicked,
               positions |-> IF panicked THEN << >>
                             ELSE Neighbors(position, grid.width, grid.height) ]
    /\ UNCHANGED << position, grid, areaVars, genVars, boardVars, tileVars >>

NeighborsNext == CallNeighbors

SpecNeighbors == NeighborsInit /\ [][NeighborsNext]_vars

\* ================================================================== claims
\* ------------------------------------------------------- Area::difference
\* What the claims call I, D and |B| for area1.difference(area2).
SharedSize == Cardinality(area1.positions \cap area2.positions)

DiffSize == Cardinality(area1.positions \ area2.positions)

\* C1: A.difference(B) on well-formed A and B completes with no unsigned
\* underflow: neither A.min - min(I, A.min, B.max) nor
\* A.max - max(0, B.min - (|B| - I)) goes below zero.
C1_DifferenceNoUnderflow ==
    area_op = "difference" =>
        /\ ~area_out.underflow
        /\ ~area_out.panicked
        /\ area1.mine_count.min
             - Min(SharedSize, Min(area1.mine_count.min, area2.mine_count.max)) >= 0
        /\ area1.mine_count.max
             - Max(0, area2.mine_count.min - (Cardinality(area2.positions) - SharedSize)) >= 0

\* C2: for well-formed A and B the range of A.difference(B) satisfies
\* 0 <= min, min <= max and max <= number of positions of the difference.
C2_DifferenceRangeSound ==
    area_op = "difference" =>
        /\ ~area_out.panicked
        /\ 0 <= area_out.area.mine_count.min
        /\ area_out.area.mine_count.min <= area_out.area.mine_count.max
        /\ area_out.area.mine_count.max <= Cardinality(area_out.area.positions)

\* The Areas of the tests area_difference_with_definite_mine_count.
TestPositions1 == { Pos(0, 1), Pos(0, 0), Pos(1, 0), Pos(2, 0) }

TestPositions2 == { Pos(1, 0), Pos(2, 0), Pos(3, 0) }

ExactArea(positions, n) == AreaNew(positions, MineCountFromRange(n, n))

DifferenceExample(a, b, lo, hi) ==
    (area_op = "difference" /\ area1 = a /\ area2 = b) =>
        /\ ~area_out.panicked
        /\ area_out.area = AreaNew(a.positions \ b.positions, MineCountFromRange(lo, hi))

\* C3: A.difference(B) has the positions A.positions \ B.positions and the
\* range [A.min - min(I, A.min, B.max), min(D, A.max - max(0, B.min - (|B| - I)))],
\* for all Areas A and B; the four examples of the claim are instances.
C3_DifferenceFormula ==
    /\ area_op = "difference" =>
         /\ ~area_out.panicked
         /\ area_out.area.positions = area1.positions \ area2.positions
         /\ area_out.area.mine_count.min =
              area1.mine_count.min
                - Min(SharedSize, Min(area1.mine_count.min, area2.mine_count.max))
         /\ area_out.area.mine_count.max =
              Min(DiffSize,
                  area1.mine_count.max
                    - Max(0, area2.mine_count.min
                               - (Cardinality(area2.positions) - SharedSize)))
    /\ DifferenceExample(ExactArea(TestPositions1, 1), ExactArea(TestPositions2, 1), 0, 1)
    /\ DifferenceExample(ExactArea(TestPositions1, 2), ExactArea(TestPositions2, 1), 1, 2)
    /\ DifferenceExample(ExactArea(TestPositions1, 3), ExactArea(TestPositions2, 1), 2, 2)
    /\ DifferenceExample(ExactArea(TestPositions2, 1), ExactArea(TestPositions1, 3), 0, 0)

\* -------------------------------------------------------------- Board::new
\* The number of mines among the in-bounds 8-neighbors of the tile at index i.
MineNeighborCount(ts, w, i) ==
    Cardinality({ j \in DOMAIN ts :
        /\ j # i
        /\ (j % w) - (i % w) \in { -1, 0, 1 }
        /\ (j \div w) - (i \div w) \in { -1, 0, 1 }
        /\ ts[j].value = Mine })

MineTiles(ts) == { j \in DOMAIN ts : ts[j].value = Mine }

\* C7: on every board Board::new returns, every tile Near(n) has n equal to the
\* number of Mine tiles among its in-bounds 8-neighbors, whatever the draw order.
C7_AdjacencyNumbers ==
    \A c \in DOMAIN calls :
        calls[c].phase = "done" =>
            \A i \in DOMAIN calls[c].tiles :
                calls[c].tiles[i].value.tag = "Near" =>
                    calls[c].tiles[i].value.count
                        = MineNeighborCount(calls[c].tiles, calls[c].width, i)

\* A returned 2-dimensional board whose mines were drawn out of index order and
\* which holds a tile next to two mines.
C7_Witness ==
    \E c \in DOMAIN calls :
        /\ calls[c].phase = "done"
        /\ config.width >= 2 /\ config.height >= 2
        /\ config.mine_count >= 2
        /\ mine_idxs[1] > mine_idxs[2]
        /\ \E i \in DOMAIN calls[c].tiles : calls[c].tiles[i].value = Near(2)

\* C8: Board::new with mine_count = m returns width*height tiles, exactly m of
\* them mines, every one Closed.
C8_MineCountConserved ==
    \A c \in DOMAIN calls :
        calls[c].phase = "done" =>
            /\ TilesLen(calls[c].tiles) = config.width * config.height
            /\ DOMAIN calls[c].tiles = 0..(config.width * config.height - 1)
            /\ Cardinality(MineTiles(calls[c].tiles)) = config.mine_count
            /\ \A i \in DOMAIN calls[c].tiles : calls[c].tiles[i].state = "Closed"

\* A returned board with two mines next to each other: the second one was
\* placed on a tile, or beside a tile, the first one had touched.
C8_Witness ==
    \E c \in DOMAIN calls :
        /\ calls[c].phase = "done"
        /\ config.mine_count >= 2
        /\ \E i \in MineTiles(calls[c].tiles) :
              MineNeighborCount(calls[c].tiles, calls[c].width, i) >= 1

\* C9: Board::new panics, before any Board exists, whenever
\* mine_count >= width*height (so for mine_count = width*height and for a zero
\* width or height), and returns a Board whenever mine_count < width*height:
\* past the assert nothing panics (every drawn index is inside the Vec and every
\* enumerated neighbor has a tile to unwrap), and the return comes after one
\* turn of the loop per drawn index.
C9_GenerationPrecondition ==
    \A c \in DOMAIN calls :
        /\ calls[c].phase = "panicked" =>
              /\ config.mine_count >= config.width * config.height
              /\ calls[c].tiles = << >>
        /\ calls[c].phase \in { "placing", "done" } =>
              config.mine_count < config.width * config.height
        /\ config.mine_count >= config.width * config.height =>
              calls[c].phase \in { "called", "panicked" }
        /\ (config.width = 0 \/ config.height = 0) =>
              calls[c].phase \in { "called", "panicked" }
        /\ calls[c].phase = "placing" =>
              /\ \A k \in DOMAIN calls[c].pending :
                    /\ calls[c].pending[k] \in DOMAIN calls[c].tiles
                    /\ \A q \in SeqToSet(Neighbors(FromIndex(calls[c].pending[k], config.width),
                                                   config.width, config.height)) :
                          HasTile(calls[c].tiles, calls[c].width, q)
              /\ Len(calls[c].pending) + Cardinality(MineTiles(calls[c].tiles))
                    = config.mine_count
        /\ calls[c].phase = "done" =>
              Cardinality(MineTiles(calls[c].tiles)) = config.mine_count

\* A call with mine_count = width*height > 0 that panicked, no tile allocated.
C9_Witness ==
    \E c \in DOMAIN calls :
        /\ calls[c].phase = "panicked"
        /\ config.width * config.height > 0
        /\ config.mine_count = config.width * config.height
        /\ calls[c].tiles = << >>

InBounds(pos) == pos.x < width /\ pos.y < Height(tiles, width)

\* Tiles i and j (row-major indices) are distinct 8-neighbors on a board w wide.
Adjacent(i, j, w) ==
    /\ i # j
    /\ (j % w) - (i % w) \in { -1, 0, 1 }
    /\ (j \div w) - (i \div w) \in { -1, 0, 1 }

\* The 8-connected region of Near(0) tiles of ts around `region`.
RECURSIVE ZeroRegion(_, _, _)
ZeroRegion(ts, w, region) ==
    LET more == { j \in DOMAIN ts :
                    /\ ts[j].value = Near(0)
                    /\ \E i \in region : Adjacent(i, j, w) }
    IN  IF more \subseteq region THEN region ELSE ZeroRegion(ts, w, region \cup more)

\* The tiles reached from `region` by steps to 8-neighbors that are Near(0)
\* and Closed in ts.
RECURSIVE ClosedZeroRegion(_, _, _)
ClosedZeroRegion(ts, w, region) ==
    LET more == { j \in DOMAIN ts :
                    /\ ts[j].value = Near(0)
                    /\ ts[j].state = "Closed"
                    /\ \E i \in region : Adjacent(i, j, w) }
    IN  IF more \subseteq region THEN region
        ELSE ClosedZeroRegion(ts, w, region \cup more)

\* A set of tiles and all their 8-neighbors.
WithNeighbors(ts, w, region) ==
    region \cup { j \in DOMAIN ts : \E i \in region : Adjacent(i, j, w) }

\* The last call was open_from on an in-bounds tile whose value is Near(0).
OpenedZeroTile ==
    /\ last_call.kind = "open_from"
    /\ InBounds(last_call.pos)
    /\ before[ToIndex(last_call.pos, width)].value = Near(0)

\* C4, as claimed: after open_from(pos) on an in-bounds Near(0) tile every tile
\* of the 8-connected Near(0) region of pos and every neighbor of that region
\* is Open, and no tile outside that set has changed state.
C4_CascadeTotality ==
    OpenedZeroTile =>
        LET S == WithNeighbors(before, width,
                    ZeroRegion(before, width, { ToIndex(last_call.pos, width) }))
        IN  /\ \A i \in S : tiles[i].state = "Open"
            /\ \A i \in DOMAIN tiles \ S : tiles[i] = before[i]

\* C4, amended: after open_from(pos) on an in-bounds Near(0) tile, with R the
\* tiles reached from pos by steps to 8-neighbors that were Near(0) and Closed
\* (pos itself belongs to R whatever its state), every tile of R and every
\* neighbor of a tile of R that was Closed is Open, and every other tile (a Flag
\* or Open tile of that set, and every tile outside it) is unchanged.
C4_CascadeOverClosedTiles ==
    OpenedZeroTile =>
        LET S == WithNeighbors(before, width,
                    ClosedZeroRegion(before, width, { ToIndex(last_call.pos, width) }))
        IN  /\ DOMAIN tiles = DOMAIN before
            /\ \A i \in DOMAIN tiles :
                  tiles[i] = IF i \in S /\ before[i].state = "Closed"
                             THEN [before[i] EXCEPT !.state = "Open"]
                             ELSE before[i]

\* open_from on a Closed Near(0) tile cascaded past the neighbors of pos, left a Flag
\* tile of the set as it was, and left a Closed tile outside the set Closed.
C4_Witness ==
    /\ OpenedZeroTile
    /\ LET start == ToIndex(last_call.pos, width)
           S == WithNeighbors(before, width, ClosedZeroRegion(before, width, { start }))
       IN  /\ before[start].state = "Closed"
           /\ \E i \in S : before[i].state = "Flag" /\ tiles[i].state = "Flag"
           /\ \E i \in S : /\ ~Adjacent(start, i, width)
                           /\ i # start
                           /\ before[i].state = "Closed"
                           /\ tiles[i].state = "Open"
           /\ \E i \in DOMAIN tiles \ S : tiles[i].state = "Closed"

\* C5: open_from(pos) and flag_from(pos) with pos.x >= width or pos.y >= height
\* leave the state and the value of every tile unchanged, also when the
\* row-major index of pos is smaller than the number of tiles.
C5_OutOfBoundsNoOp ==
    (last_call # NoCall /\ ~InBounds(last_call.pos)) => tiles = before

\* C6: open_from(pos) on a tile that is already Open leaves the state of every
\* tile unchanged.
C6_ReopenNoOp ==
    ( /\ last_call.kind = "open_from"
      /\ InBounds(last_call.pos)
      /\ before[ToIndex(last_call.pos, width)].state = "Open" )
    => \A i \in DOMAIN tiles : tiles[i].state = before[i].state

\* -------------------------------------------------------------------- Tile
\* The state of the tile before its k-th call and after it.
StateBefore(k) == tile_calls[k].tile.state

StateAfter(k) == IF k = Len(tile_calls) THEN tile.state ELSE tile_calls[k + 1].tile.state

\* C11: under any sequence of open(), flag() and toggle_flag() calls on a tile,
\* once its state is Open it never changes again; open() and flag() change the
\* state only when it is Closed (open() does not open a Flag tile); and two
\* toggle_flag() calls in a row on a Closed or Flag tile restore its state.
C11_TileStateMachine ==
    \A k \in DOMAIN tile_calls :
        /\ StateBefore(k) = "Open" =>
              \A j \in k..Len(tile_calls) : StateAfter(j) = "Open"
        /\ (tile_calls[k].op \in { "open", "flag" } /\ StateBefore(k) # "Closed") =>
              StateAfter(k) = StateBefore(k)
        /\ (tile_calls[k].op = "open" /\ StateBefore(k) = "Flag") =>
              StateAfter(k) = "Flag"
        /\ ( /\ k + 1 \in DOMAIN tile_calls
              /\ tile_calls[k].op = "toggle_flag"
              /\ tile_calls[k + 1].op = "toggle_flag"
              /\ StateBefore(k) \in { "Closed", "Flag" } ) =>
              StateAfter(k + 1) = StateBefore(k)

\* A Closed tile was toggled twice (Closed again), flagged, open() was called on
\* the Flag tile, and it is still Flag.
C11_Witness ==
    /\ Len(tile_calls) = 4
    /\ StateBefore(1) = "Closed"
    /\ tile_calls[1].op = "toggle_flag" /\ tile_calls[2].op = "toggle_flag"
    /\ StateAfter(2) = "Closed"
    /\ tile_calls[3].op = "flag" /\ tile_calls[4].op = "open"
    /\ tile.state = "Flag"

\* ----------------------------------------------------- tile_neighbors_area
\* The row-major indices of the 8-neighbors of index i on the board.
NeighborIndices(i) == { j \in DOMAIN tiles : Adjacent(i, j, width) }

\* C12: in any board state reached from a generated board by open_from and
\* flag_from calls, for every in-bounds pos with value Near(v),
\* tile_neighbors_area(pos) returns as positions exactly the Closed neighbors
\* of pos and as range [v - f, v - f], f the number of Flag neighbors of pos,
\* where v - f does not go below zero.
C12_NeighborsAreaExact ==
    ( /\ last_call.kind = "tile_neighbors_area"
      /\ InBounds(last_call.pos)
      /\ tiles[ToIndex(last_call.pos, width)].value.tag = "Near" )
    => LET i == ToIndex(last_call.pos, width)
           v == tiles[i].value.count
           f == Cardinality({ j \in NeighborIndices(i) : tiles[j].state = "Flag" })
       IN  /\ v - f >= 0
           /\ ~neighbors_area.underflow
           /\ ~neighbors_area.panicked
           /\ neighbors_area.area.positions =
                 { FromIndex(j, width) :
                     j \in { n \in NeighborIndices(i) : tiles[n].state = "Closed" } }
           /\ neighbors_area.area.mine_count = MineCountFromRange(v - f, v - f)

\* C13: in every such board state and for every pos (in bounds or not, Near or
\* Mine), the Area tile_neighbors_area(pos) returns satisfies
\* 0 <= min <= max <= number of positions of that Area.
C13_NeighborsAreaBounds ==
    last_call.kind = "tile_neighbors_area" =>
        /\ ~neighbors_area.panicked
        /\ 0 <= neighbors_area.area.mine_count.min
        /\ neighbors_area.area.mine_count.min <= neighbors_area.area.mine_count.max
        /\ neighbors_area.area.mine_count.max
              <= Cardinality(neighbors_area.area.positions)

\* ------------------------------------------------------ Area::intersection
\* C14: for well-formed A and B, A.intersection(B) has the positions
\* I = A.positions \cap B.positions and the range with
\* min = min(|I|, max(A.min -sat (|A| - |I|), B.min -sat (|B| - |I|))) and
\* max = min(|I|, A.max, B.max), and that range satisfies min <= max <= |I|.
C14_IntersectionWellFormed ==
    area_op = "intersection" =>
        LET shared == area1.positions \cap area2.positions
            size == Cardinality(shared)
            lo == Min(size,
                      Max(Max(0, area1.mine_count.min
                                   - (Cardinality(area1.positions) - size)),
                          Max(0, area2.mine_count.min
                                   - (Cardinality(area2.positions) - size))))
            hi == Min(size, Min(area1.mine_count.max, area2.mine_count.max))
        IN  /\ ~area_out.panicked
            /\ area_out.area.positions = shared
            /\ area_out.area.mine_count = MineCountFromRange(lo, hi)
            /\ area_out.area.mine_count.min <= area_out.area.mine_count.max
            /\ area_out.area.mine_count.max <= size

\* ---------------------------------------- Area::difference, the edge cases
\* C16: for well-formed A and B with A.positions a subset of B.positions,
\* A.difference(B) has no position and the range [0, 0].
C16_DifferenceContained ==
    (area_op = "difference" /\ area1.positions \subseteq area2.positions) =>
        /\ ~area_out.panicked
        /\ area_out.area = AreaNew({}, MineCountFromRange(0, 0))

\* B.positions is a 3-element subset of A.positions, A has the exact count 3
\* and B the exact count 1, and A.difference(B) was called.
SubsetCase ==
    /\ area_op = "difference"
    /\ area2.positions \subseteq area1.positions
    /\ Cardinality(area2.positions) = 3
    /\ area1.mine_count = MineCountFromRange(3, 3)
    /\ area2.mine_count = MineCountFromRange(1, 1)

\* C17, as claimed: in the subset case the lower bound of A.difference(B) is
\* max(0, 3 - shared_size) = 0.
C17_SubsetLowerBoundZero ==
    SubsetCase =>
        /\ ~area_out.panicked
        /\ area_out.area.mine_count.min = Max(0, 3 - SharedSize)
        /\ area_out.area.mine_count.min = 0

\* C17, amended: in the subset case A.difference(B) completes without
\* underflow and the lower bound of its range is
\* A.min - min(shared_size, A.min, B.max) = 3 - min(3, 3, 1) = 2.
C17_SubsetLowerBound ==
    SubsetCase =>
        /\ ~area_out.underflow
        /\ ~area_out.panicked
        /\ SharedSize = 3
        /\ area_out.area.mine_count.min =
              area1.mine_count.min
                - Min(SharedSize, Min(area1.mine_count.min, area2.mine_count.max))
        /\ area_out.area.mine_count.min = 2

\* The subset case with two positions of A outside B: the difference holds
\* exactly the two mines of A that are not B's.
C17_Witness ==
    /\ SubsetCase
    /\ Cardinality(area1.positions \ area2.positions) = 2
    /\ area_out.area.mine_count = MineCountFromRange(2, 2)

\* ------------------------------------------------------ Area::next_action
\* C15: next_action returns Open exactly when the range is exact (min = max)
\* with value 0, Flag exactly when it is exact with a nonzero value equal to
\* the number of positions, and None in every other case.
C15_NextAction ==
    area_op = "next_action" =>
        LET exact == area1.mine_count.min = area1.mine_count.max
            count == area1.mine_count.min
            open == exact /\ count = 0
            flag == exact /\ count # 0 /\ count = Cardinality(area1.positions)
        IN  /\ (action_out = "Open") <=> open
            /\ (action_out = "Flag") <=> flag
            /\ (action_out = "None") <=> (~open /\ ~flag)

\* next_action on the Area without positions and with the exact count 0, where
\* the count is both zero and the number of positions: Open.
C15_Witness ==
    /\ area_op = "next_action"
    /\ area1 = AreaNew({}, MineCountFromRange(0, 0))
    /\ action_out = "Open"

\* ---------------------------------------------------- Position::neighbors
\* The eight offsets (dx, dy) in row-major order, starting at (-1, -1).
Offsets ==
    << << -1, -1 >>, << 0, -1 >>, << 1, -1 >>,
       << -1, 0 >>,               << 1, 0 >>,
       << -1, 1 >>,  << 0, 1 >>,  << 1, 1 >> >>

\* The neighbors of p inside w x h as the claim describes them: p plus each
\* offset, over the integers, kept when 0 <= x < w and 0 <= y < h.
ExpectedNeighbors(p, w, h) ==
    LET shifted == [ k \in DOMAIN Offsets |->
                       Pos(p.x + Offsets[k][1], p.y + Offsets[k][2]) ]
    IN  SelectSeq(shifted, LAMBDA q : /\ 0 <= q.x /\ q.x < w
                                      /\ 0 <= q.y /\ q.y < h)

\* C18: for every position p and every width and height, p.neighbors(width,
\* height) yields exactly the positions q # p with |q.x - p.x| <= 1,
\* |q.y - p.y| <= 1, q.x < width and q.y < height, each once, at most 8, in
\* row-major order of the offsets from (-1,-1); (1,0) on an 8x8 grid yields
\* (0,0), (2,0), (0,1), (1,1), (2,1).
C18_NeighborsEnumeration ==
    neighbors_out.called =>
        /\ ~neighbors_out.panicked
        /\ neighbors_out.positions
              = ExpectedNeighbors(position, grid.width, grid.height)
        /\ Len(neighbors_out.positions) <= 8
        /\ \A j, k \in DOMAIN neighbors_out.positions :
              j # k => neighbors_out.positions[j] # neighbors_out.positions[k]
        /\ \A k \in DOMAIN neighbors_out.positions :
              LET q == neighbors_out.positions[k]
              IN  /\ q # position
                  /\ q.x - position.x \in { -1, 0, 1 }
                  /\ q.y - position.y \in { -1, 0, 1 }
                  /\ q.x < grid.width /\ q.y < grid.height
        /\ (position = Pos(1, 0) /\ grid = [width |-> 8, height |-> 8]) =>
              neighbors_out.positions
                = << Pos(0, 0), Pos(2, 0), Pos(0, 1), Pos(1, 1), Pos(2, 1) >>

\* ------------------------------------------------------ Board::empty_area
\* C19: for every board state and every start position open_from accepts, the
\* loop of empty_area pops each position at most once: the returned list holds
\* no position twice and the loop ends after at most width*height iterations.
C19_FloodFillOnce ==
    last_call.kind = "open_from" =>
        /\ \A j, k \in DOMAIN emptys : j # k => emptys[j] # emptys[k]
        /\ Len(emptys) <= width * Height(tiles, width)

\* ------------------------------------- Area::difference, mine assignments
\* C20: for all Areas A and B and every set M of mined positions with
\* |M \cap A.positions| in [A.min, A.max] and |M \cap B.positions| in
\* [B.min, B.max], A.difference(B) completes without underflow and the number
\* of mines of M inside A.positions \ B.positions lies within the returned range.
C20_DifferenceSound ==
    (area_op = "difference" /\ HoldsFor(area1, mines) /\ HoldsFor(area2, mines)) =>
        /\ ~area_out.underflow
        /\ ~area_out.panicked
        /\ area_out.area.positions = area1.positions \ area2.positions
        /\ HoldsFor(area_out.area, mines)

\* A difference of two areas that overlap in part, in a build with overflow
\* checks, where A's upper bound exceeds its number of positions, B's lower
\* bound forces a mine into the shared part, and the returned range is exactly
\* the number of mines outside B.
C20_Witness ==
    /\ area_op = "difference"
    /\ overflow_checks
    /\ HoldsFor(area1, mines) /\ HoldsFor(area2, mines)
    /\ area1.positions \cap area2.positions # {}
    /\ area1.positions \ area2.positions # {}
    /\ area2.positions \ area1.positions # {}
    /\ area1.mine_count.max > Cardinality(area1.positions)
    /\ area2.mine_count.min > Cardinality(area2.positions \ area1.positions)
    /\ mines \cap (area1.positions \ area2.positions) # {}
    /\ area_out.area.mine_count.min = area_out.area.mine_count.max

\* --------------------------------------------- open_from, flags and mines
\* C21: in any board state reached by open_from and flag_from calls,
\* open_from(pos) on an in-bounds tile whose state is Flag leaves the state of
\* every tile unchanged, whatever the flagged tile's value.
C21_FlagsBlockOpening ==
    ( /\ last_call.kind = "open_from"
      /\ InBounds(last_call.pos)
      /\ before[ToIndex(last_call.pos, width)].state = "Flag" )
    => \A i \in DOMAIN tiles : tiles[i].state = before[i].state

\* C22: in any board state reached from a generated board by open_from and
\* flag_from calls with arbitrary positions, open_from(pos) changes the state
\* of no Mine tile other than the tile located at (pos.x, pos.y).
C22_CascadeRevealsNoMine ==
    last_call.kind = "open_from" =>
        \A i \in DOMAIN tiles :
            (before[i].value = Mine /\ tiles[i].state # before[i].state)
                => FromIndex(i, width) = last_call.pos

====
